---- MODULE Spec2Model ----
(***************************************************************************)
(* GlueTransformStage (aws_ddk_core/stages/glue_transform.py).             *)
(*                                                                         *)
(* The stage's constructor builds a Step Functions definition of two Task  *)
(* states, hands it to create_state_machine and adds one statement to the  *)
(* state machine's role.  Two accessors return the output event entry and  *)
(* the rule targets.  The model holds the stage object, the values the     *)
(* accessors returned, and one execution of the definition the constructor *)
(* built, run by the Amazon States Language rules for Task states.         *)
(***************************************************************************)
EXTENDS Integers, Sequences, FiniteSets, TLC

VARIABLES
    ctor_args,      \* the arguments __init__ was called with
    stage,          \* the GlueTransformStage object, NoStage before __init__
    n_calls,        \* accessor calls made so far
    out_event,      \* value of the latest get_output_event() call
    first_event,    \* value of the first get_output_event() call
    out_targets,    \* value of the latest get_targets() call
    first_targets,  \* value of the first get_targets() call
    exec,           \* the current execution of the stage's state machine
    history,        \* the execution's event history
    job_run,        \* status of the Glue job run the execution started
    crawler,        \* state of the Glue crawler
    published,      \* entries put on the event bus by the execution
    n_exec          \* executions started so far

vars == <<ctor_args, stage, n_calls, out_event, first_event, out_targets, first_targets,
          exec, history, job_run, crawler, published, n_exec>>

stage_vars == <<ctor_args, stage>>
call_vars == <<n_calls, out_event, first_event, out_targets, first_targets>>
exec_vars == <<exec, history, job_run, crawler, published, n_exec>>

(***************************************************************************)
(* Bounds and input sets.                                                  *)
(***************************************************************************)
MaxIdLen == 2
MaxCalls == 2
MaxExecutions == 2

IdChars == {"a", "b"}

RECURSIVE StringsUpTo(_)
StringsUpTo(n) ==
    IF n = 0 THEN {""}
    ELSE LET shorter == StringsUpTo(n - 1)
         IN  shorter \cup {s \o c : s \in shorter, c \in IdChars}

\* construct ids are non-empty strings
StageIds == StringsUpTo(MaxIdLen) \ {""}
EnvironmentIds == {"dev"}
JobNames == {"job-1", "job-2"}
CrawlerNames == {"crawler-1", "crawler-2"}

(***************************************************************************)
(* Python values: None and Dict[str, Any].  A dict is a set of <<key,      *)
(* value>> pairs with distinct keys.                                       *)
(***************************************************************************)
PyNone == [tag |-> "None", items |-> {}]
PyDict(items) == [tag |-> "dict", items |-> items]

DictKeys == {"--k"}
DictVals == {"v1", "v2"}
Dicts == {PyDict({})} \cup {PyDict({<<k, v>>}) : k \in DictKeys, v \in DictVals}
OptionalDicts == {PyNone} \cup Dicts

\* Python truth value of an Optional[Dict]: None and {} are falsy
Truthy(v) == v.tag = "dict" /\ v.items # {}

(***************************************************************************)
(* The CDK objects the constructor creates.                                *)
(***************************************************************************)
\* TaskInput.from_object(obj=...)
TaskInput_from_object(obj) == [type |-> "OBJECT", value |-> obj]

\* RuleTargetInput.from_object(...)
RuleTargetInput_from_object(obj) == [kind |-> "RuleTargetInput", obj |-> obj]

\* Resource ARN suffix of a service integration pattern
IntegrationPatternSuffix(pattern) ==
    CASE pattern = "REQUEST_RESPONSE" -> ""
      [] pattern = "RUN_JOB" -> ".sync"
      [] pattern = "WAIT_FOR_TASK_TOKEN" -> ".waitForTaskToken"

\* A Task state that has no successor yet: no Retry, no Catch, End
TaskState(id, resource, parameters, result_path) ==
    [id |-> id, Type |-> "Task", Resource |-> resource,
     Parameters |-> parameters, ResultPath |-> result_path,
     Retry |-> <<>>, Catch |-> <<>>, Next |-> "", End |-> TRUE]

\* arguments=TaskInput.from_object(obj=job_args) if job_args else None
JobArguments_NotNone(job_args) ==
    IF job_args # PyNone THEN TaskInput_from_object(job_args) ELSE PyNone

JobArguments(job_args) ==
    IF Truthy(job_args) THEN TaskInput_from_object(job_args) ELSE PyNone

\* GlueStartJobRun(self, id, glue_job_name=, integration_pattern=,
\*                 arguments=, result_path=)
GlueStartJobRun(id, glue_job_name, integration_pattern, arguments, result_path) ==
    TaskState(id,
              "arn:aws:states:::glue:startJobRun"
                  \o IntegrationPatternSuffix(integration_pattern),
              [JobName |-> glue_job_name, Arguments |-> arguments],
              result_path)

StartJobRun_RequestResponse(job_name, job_args) ==
    GlueStartJobRun("start-job-run", job_name, "REQUEST_RESPONSE",
                    JobArguments(job_args), "DISCARD")

StartJobRun_WithCatch(job_name, job_args) ==
    [GlueStartJobRun("start-job-run", job_name, "RUN_JOB",
                     JobArguments(job_args), "DISCARD")
        EXCEPT !.Catch = <<[ErrorEquals |-> <<"States.ALL">>,
                            Next |-> "crawl-object"]>>]

\* start_job_run: the GlueStartJobRun step function task
StartJobRun(job_name, job_args) ==
    GlueStartJobRun("start-job-run", job_name, "RUN_JOB",
                    JobArguments(job_args), "DISCARD")

\* CustomState(self, id, state_json={Type, Resource, Parameters})
CustomState(id, state_json) ==
    [id |-> id, Type |-> state_json.Type, Resource |-> state_json.Resource,
     Parameters |-> state_json.Parameters, ResultPath |-> "$",
     Retry |-> <<>>, Catch |-> <<>>, Next |-> "", End |-> TRUE]

CrawlObject_Sync(crawler_name) ==
    CustomState("crawl-object",
                [Type |-> "Task",
                 Resource |-> "arn:aws:states:::aws-sdk:glue:startCrawler.sync",
                 Parameters |-> [Name |-> crawler_name]])

\* crawl_object: the start crawler step function task
CrawlObject(crawler_name) ==
    CustomState("crawl-object",
                [Type |-> "Task",
                 Resource |-> "arn:aws:states:::aws-sdk:glue:startCrawler",
                 Parameters |-> [Name |-> crawler_name]])

\* a.next(b): a chain that starts at a, a's successor set to b
ChainNext(a, b) ==
    [start |-> a.id,
     states |-> {[a EXCEPT !.Next = b.id, !.End = FALSE], b}]

Definition_CrawlFirst(start_job_run, crawl_object) ==
    ChainNext(crawl_object, start_job_run)

\* definition=(start_job_run.next(crawl_object))
Definition(start_job_run, crawl_object) ==
    ChainNext(start_job_run, crawl_object)

PolicyStatement(effect, actions, resources) ==
    [effect |-> effect, actions |-> actions, resources |-> resources]

StartCrawlerStatement_AllGlue ==
    PolicyStatement("ALLOW", <<"glue:*">>, <<"*">>)

\* the statement that allows the state machine to start the crawler
StartCrawlerStatement ==
    PolicyStatement("ALLOW", <<"glue:StartCrawler">>, <<"*">>)

(***************************************************************************)
(* StateMachineStage, the base class: it keeps the stage id and owns the   *)
(* state machine that create_state_machine builds from the definition it   *)
(* is given.                                                               *)
(***************************************************************************)
\* super().__init__(scope, id)
StateMachineStage(id) ==
    [id |-> id]

\* self.create_state_machine(id, environment_id=, definition=,
\*                           state_machine_type=)
create_state_machine(id, environment_id, definition, state_machine_type) ==
    [id |-> id, environment_id |-> environment_id, definition |-> definition,
     state_machine_type |-> state_machine_type, role_policy |-> <<>>]

\* state_machine.add_to_role_policy(statement)
add_to_role_policy(state_machine, statement) ==
    [state_machine EXCEPT !.role_policy = Append(@, statement)]

(***************************************************************************)
(* GlueTransformStage.                                                     *)
(***************************************************************************)
EventDetailType_NoSuffix(id) == id

\* self._event_detail_type = f"{id}-event-type"
EventDetailType(id) == id \o "-event-type"

\* state_machine_type=StateMachineType.STANDARD
StateMachineType == "STANDARD"

\* GlueTransformStage(scope, id, environment_id, job_name, crawler_name,
\*                    job_args, state_machine_input)
GlueTransformStage(id, environment_id, job_name, crawler_name, job_args, state_machine_input) ==
    LET base == StateMachineStage(id)
        start_job_run == StartJobRun(job_name, job_args)
        crawl_object == CrawlObject(crawler_name)
        state_machine ==
            create_state_machine(id \o "-state-machine", environment_id,
                                 Definition(start_job_run, crawl_object),
                                 StateMachineType)
    IN  [id |-> base.id,
         _state_machine_input |-> state_machine_input,
         _event_detail_type |-> EventDetailType(id),
         _state_machine |->
             add_to_role_policy(state_machine, StartCrawlerStatement)]

get_output_event(self) ==
    [detail |-> TaskInput_from_object(
                    PyDict({<<"message", self.id \o " stage has finished.">>})),
     detail_type |-> self._event_detail_type,
     source |-> self.id]

SfnStateMachine(machine, input) == [machine |-> machine, input |-> input]

get_targets_NoInput(self) ==
    <<SfnStateMachine(self._state_machine, RuleTargetInput_from_object(PyNone))>>

get_targets(self) ==
    <<SfnStateMachine(self._state_machine,
                      RuleTargetInput_from_object(self._state_machine_input))>>

\* the stage before its constructor has run, and the accessors' values
\* before their first call
NoStage == [id |-> ""]
NoArgs == [id |-> ""]
NoValue == <<>>
NoEvent == [source |-> ""]

Construct ==
    /\ stage = NoStage
    /\ \E id \in StageIds, environment_id \in EnvironmentIds,
          job_name \in JobNames, crawler_name \in CrawlerNames,
          job_args \in OptionalDicts, state_machine_input \in OptionalDicts :
            /\ ctor_args' = [id |-> id, environment_id |-> environment_id,
                             job_name |-> job_name,
                             crawler_name |-> crawler_name,
                             job_args |-> job_args,
                             state_machine_input |-> state_machine_input]
            /\ stage' = GlueTransformStage(id, environment_id, job_name,
                                           crawler_name, job_args,
                                           state_machine_input)
    /\ UNCHANGED <<call_vars, exec_vars>>

CallGetOutputEvent_StoresSuffix ==
    /\ stage # NoStage
    /\ n_calls < MaxCalls
    /\ n_calls' = n_calls + 1
    /\ out_event' = get_output_event(stage)
    /\ first_event' = IF first_event = NoEvent THEN out_event' ELSE first_event
    /\ stage' = [stage EXCEPT
                    !._event_detail_type = EventDetailType(stage._event_detail_type)]
    /\ UNCHANGED <<ctor_args, out_targets, first_targets, exec_vars>>

\* a call of get_output_event() on the constructed stage
CallGetOutputEvent ==
    /\ stage # NoStage
    /\ n_calls < MaxCalls
    /\ n_calls' = n_calls + 1
    /\ out_event' = get_output_event(stage)
    /\ first_event' = IF first_event = NoEvent THEN out_event' ELSE first_event
    /\ UNCHANGED <<stage_vars, out_targets, first_targets, exec_vars>>

\* a call of get_targets() on the constructed stage
CallGetTargets ==
    /\ stage # NoStage
    /\ n_calls < MaxCalls
    /\ n_calls' = n_calls + 1
    /\ out_targets' = get_targets(stage)
    /\ first_targets' = IF first_targets = NoValue THEN out_targets'
                        ELSE first_targets
    /\ UNCHANGED <<stage_vars, out_event, first_event, exec_vars>>

(***************************************************************************)
(* One execution of the stage's state machine.  The definition holds Task  *)
(* states only; a Task whose resource ends in ".sync" (RUN_JOB) waits for  *)
(* the job it started, any other Task returns with the API's response.     *)
(***************************************************************************)
ExecInputs == {PyDict({}), PyDict({<<"file", "f1">>})}
JobRunResult == PyDict({<<"JobRunState", "SUCCEEDED">>})
StartJobRunResponse == PyDict({<<"JobRunId", "jr_1">>})
StartCrawlerResponse == PyDict({})
PutEventsResponse == PyDict({<<"FailedEntryCount", "0">>})

NoExec == [status |-> "NONE", current |-> "", phase |-> "", input |-> PyNone,
           attempts |-> 0]

Event(type, state, data) == [type |-> type, state |-> state, data |-> data]

TheDefinition == stage._state_machine.definition
StateOf(id) == CHOOSE s \in TheDefinition.states : s.id = id
CurrentState == StateOf(exec.current)

EndsWith(str, suffix) ==
    /\ Len(str) >= Len(suffix)
    /\ SubSeq(str, Len(str) - Len(suffix) + 1, Len(str)) = suffix

IsSync(s) == EndsWith(s.Resource, ".sync")

\* the service API a Task's resource names
Api(s) ==
    LET prefix == "arn:aws:states:::"
        last == IF IsSync(s) THEN Len(s.Resource) - Len(".sync")
                ELSE Len(s.Resource)
    IN  SubSeq(s.Resource, Len(prefix) + 1, last)

\* ResultPath: DISCARD keeps the state's input, "$" replaces it by the result
Output(s, input, result) ==
    IF s.ResultPath = "DISCARD" THEN input ELSE result

MaxAttempts(s) == IF s.Retry = <<>> THEN 0 ELSE s.Retry[1].MaxAttempts

\* the state s is left with the given output: its successor is entered, or
\* the execution succeeds when s is an End state
Leave(s, output) ==
    IF s.End
    THEN /\ exec' = [NoExec EXCEPT !.status = "SUCCEEDED"]
         /\ history' = history \o <<Event("TaskStateExited", s.id, output),
                                    Event("ExecutionSucceeded", "", output)>>
    ELSE /\ exec' = [exec EXCEPT !.current = s.Next, !.phase = "entered",
                                 !.input = output, !.attempts = 0]
         /\ history' = history \o <<Event("TaskStateExited", s.id, output),
                                    Event("TaskStateEntered", s.Next, output)>>

\* the Task of state s failed: retried, caught, or the execution fails
Fail(s) ==
    IF exec.attempts < MaxAttempts(s)
    THEN /\ exec' = [exec EXCEPT !.phase = "entered", !.attempts = @ + 1]
         /\ history' = Append(history, Event("TaskFailed", s.id, exec.input))
    ELSE IF s.Catch # <<>>
    THEN /\ exec' = [exec EXCEPT !.current = s.Catch[1].Next,
                                 !.phase = "entered", !.attempts = 0]
         /\ history' = history \o
                <<Event("TaskFailed", s.id, exec.input),
                  Event("TaskStateEntered", s.Catch[1].Next, exec.input)>>
    ELSE /\ exec' = [NoExec EXCEPT !.status = "FAILED"]
         /\ history' = history \o <<Event("TaskFailed", s.id, exec.input),
                                    Event("ExecutionFailed", "", exec.input)>>

StartExecution ==
    /\ stage # NoStage
    /\ exec.status # "RUNNING"
    /\ n_exec < MaxExecutions
    /\ \E input \in ExecInputs :
        /\ exec' = [status |-> "RUNNING", current |-> TheDefinition.start,
                    phase |-> "entered", input |-> input, attempts |-> 0]
        /\ history' = <<Event("ExecutionStarted", "", input),
                        Event("TaskStateEntered", TheDefinition.start, input)>>
    /\ job_run' = "NONE"
    /\ published' = <<>>
    /\ n_exec' = n_exec + 1
    /\ UNCHANGED <<stage_vars, call_vars, crawler>>

\* a request-response Task calls its API and leaves with the response
TaskRequestResponse ==
    /\ exec.status = "RUNNING" /\ exec.phase = "entered"
    /\ ~IsSync(CurrentState)
    /\ LET s == CurrentState
       IN  CASE Api(s) = "aws-sdk:glue:startCrawler" ->
                    IF crawler = "READY"
                    THEN /\ crawler' = "RUNNING"
                         /\ Leave(s, Output(s, exec.input, StartCrawlerResponse))
                         /\ UNCHANGED <<job_run, published>>
                    ELSE \* CrawlerRunningException
                         /\ Fail(s)
                         /\ UNCHANGED <<job_run, published, crawler>>
             [] Api(s) = "glue:startJobRun" ->
                    /\ job_run' = "RUNNING"
                    /\ Leave(s, Output(s, exec.input, StartJobRunResponse))
                    /\ UNCHANGED <<crawler, published>>
             [] Api(s) = "events:putEvents" ->
                    /\ published' = published \o s.Parameters.Entries
                    /\ Leave(s, Output(s, exec.input, PutEventsResponse))
                    /\ UNCHANGED <<crawler, job_run>>
    /\ UNCHANGED <<stage_vars, call_vars, n_exec>>

\* a .sync Task starts its job and waits for it
TaskSubmitSync ==
    /\ exec.status = "RUNNING" /\ exec.phase = "entered"
    /\ IsSync(CurrentState)
    /\ LET s == CurrentState
       IN  CASE Api(s) = "glue:startJobRun" ->
                    /\ job_run' = "RUNNING"
                    /\ exec' = [exec EXCEPT !.phase = "waiting"]
                    /\ history' = Append(history,
                                         Event("TaskSubmitted", s.id, exec.input))
                    /\ UNCHANGED crawler
             [] Api(s) = "aws-sdk:glue:startCrawler" ->
                    IF crawler = "READY"
                    THEN /\ crawler' = "RUNNING"
                         /\ exec' = [exec EXCEPT !.phase = "waiting"]
                         /\ history' = Append(history,
                                Event("TaskSubmitted", s.id, exec.input))
                         /\ UNCHANGED job_run
                    ELSE /\ Fail(s)
                         /\ UNCHANGED <<job_run, crawler>>
    /\ UNCHANGED <<stage_vars, call_vars, published, n_exec>>

\* the job a .sync Task waits for has ended
TaskSyncEnds ==
    /\ exec.status = "RUNNING" /\ exec.phase = "waiting"
    /\ LET s == CurrentState
       IN  CASE Api(s) = "glue:startJobRun" ->
                    /\ job_run \in {"SUCCEEDED", "FAILED"}
                    /\ IF job_run = "SUCCEEDED"
                       THEN Leave(s, Output(s, exec.input, JobRunResult))
                       ELSE Fail(s)
             [] Api(s) = "aws-sdk:glue:startCrawler" ->
                    /\ crawler = "READY"
                    /\ Leave(s, Output(s, exec.input, StartCrawlerResponse))
    /\ UNCHANGED <<stage_vars, call_vars, job_run, crawler, published, n_exec>>

\* the API call of a Task is refused (missing resource, permission denied)
TaskCallFails ==
    /\ exec.status = "RUNNING" /\ exec.phase = "entered"
    /\ Fail(CurrentState)
    /\ UNCHANGED <<stage_vars, call_vars, job_run, crawler, published, n_exec>>

\* the Glue job run ends, successfully or not
JobRunEnds ==
    /\ job_run = "RUNNING"
    /\ job_run' \in {"SUCCEEDED", "FAILED"}
    /\ UNCHANGED <<stage_vars, call_vars, exec, history, crawler, published,
                   n_exec>>

\* the Glue crawler run ends
CrawlerEnds ==
    /\ crawler = "RUNNING"
    /\ crawler' = "READY"
    /\ UNCHANGED <<stage_vars, call_vars, exec, history, job_run, published,
                   n_exec>>

Init ==
    /\ ctor_args = NoArgs
    /\ stage = NoStage
    /\ n_calls = 0
    /\ out_event = NoEvent
    /\ first_event = NoEvent
    /\ out_targets = NoValue
    /\ first_targets = NoValue
    /\ exec = NoExec
    /\ history = <<>>
    /\ job_run = "NONE"
    /\ crawler = "READY"
    /\ published = <<>>
    /\ n_exec = 0

Next ==
    \/ Construct
    \/ CallGetOutputEvent
    \/ CallGetTargets
    \/ StartExecution
    \/ TaskRequestResponse
    \/ TaskSubmitSync
    \/ TaskSyncEnds
    \/ TaskCallFails
    \/ JobRunEnds
    \/ CrawlerEnds

Spec == Init /\ [][Next]_vars

(***************************************************************************)
(* Properties.                                                             *)
(***************************************************************************)
Constructed == stage # NoStage
StateMachine == stage._state_machine
Entered(i, id) ==
    history[i].type = "TaskStateEntered" /\ history[i].state = id
Exited(i, id) ==
    history[i].type = "TaskStateExited" /\ history[i].state = id
TaskFailedAt(i, id) ==
    history[i].type = "TaskFailed" /\ history[i].state = id

\* C1: the definition has exactly two steps, 'start-job-run' as the start
\* state and 'crawl-object' as its only successor, with no branching; in an
\* execution 'crawl-object' is entered only after 'start-job-run' has been
\* entered and left.
C1_TwoOrderedSteps ==
    Constructed =>
        /\ Cardinality(TheDefinition.states) = 2
        /\ {s.id : s \in TheDefinition.states} = {"start-job-run", "crawl-object"}
        /\ TheDefinition.start = "start-job-run"
        /\ StateOf("start-job-run").Next = "crawl-object"
        /\ ~StateOf("start-job-run").End
        /\ StateOf("start-job-run").Catch = <<>>
        /\ StateOf("crawl-object").End
        /\ StateOf("crawl-object").Next = ""
        /\ StateOf("crawl-object").Catch = <<>>
        /\ \A i \in DOMAIN history :
              Entered(i, "crawl-object") =>
                  \E j, k \in 1..(i - 1) :
                      /\ j < k
                      /\ Entered(j, "start-job-run")
                      /\ Exited(k, "start-job-run")

C1_Witness ==
    /\ Constructed
    /\ \E i \in DOMAIN history : Entered(i, "crawl-object")

C3_EventEntry ==
    out_event # NoEvent =>
        /\ out_event.detail_type = ctor_args.id \o "-event-type"
        /\ out_event.source = ctor_args.id
        /\ out_event.detail.value.items =
              {<<"message", ctor_args.id \o " stage has finished.">>}

C3_Witness ==
    /\ out_event # NoEvent
    /\ Len(ctor_args.id) = MaxIdLen

\* C4: get_targets returns a list of exactly one target, which references the
\* state machine the constructor created and carries the state_machine_input
\* given to the constructor, also when that input is None.
C4_OneTarget ==
    out_targets # NoValue =>
        /\ Len(out_targets) = 1
        /\ out_targets[1].machine = StateMachine
        /\ out_targets[1].machine.id = ctor_args.id \o "-state-machine"
        /\ out_targets[1].input.obj = ctor_args.state_machine_input

C4_Witness ==
    /\ out_targets # NoValue
    /\ ctor_args.state_machine_input = PyNone

\* C5: an execution that completes the job run step and the crawler start
\* step has published the entry of get_output_event as its last action.
C5_EventPublishedAtEnd ==
    (Constructed /\ exec.status = "SUCCEEDED") =>
        /\ published # <<>>
        /\ published[Len(published)] = get_output_event(stage)

\* C6: after construction no step, in particular no accessor call, changes
\* the stage (event detail type, state-machine input, state machine with its
\* definition and role policy), and every call of an accessor returns the
\* value its first call returned.
C6_WriteOnce ==
    /\ [][Constructed => stage' = stage]_vars
    /\ [](out_event # NoEvent => out_event = first_event)
    /\ [](out_targets # NoValue => out_targets = first_targets)

C6_Witness ==
    /\ n_calls >= 2
    /\ out_event # NoEvent
    /\ out_targets = NoValue

C8_JobArguments ==
    Constructed =>
        LET args == StateOf("start-job-run").Parameters.Arguments
            job_args == ctor_args.job_args
        IN  /\ (args # PyNone) <=> (job_args.tag = "dict" /\ job_args.items # {})
            /\ args # PyNone => args.value = job_args
            /\ job_args \in {PyNone, PyDict({})} =>
                  \A other \in {PyNone, PyDict({})} :
                      TheDefinition =
                          GlueTransformStage(ctor_args.id,
                              ctor_args.environment_id, ctor_args.job_name,
                              ctor_args.crawler_name, other,
                              ctor_args.state_machine_input)._state_machine.definition

C8_Witness ==
    /\ Constructed
    /\ ctor_args.job_args = PyDict({})

\* C9: the job run step is synchronous (.sync) and discards its result: when
\* the crawler start step is entered the job run has succeeded, and the step
\* is entered with the input the job run step was entered with.
C9_SyncAndDiscard ==
    Constructed =>
        /\ IsSync(StateOf("start-job-run"))
        /\ StateOf("start-job-run").ResultPath = "DISCARD"
        /\ \A i \in DOMAIN history :
              Entered(i, "crawl-object") =>
                  /\ job_run = "SUCCEEDED"
                  /\ \E j \in 1..(i - 1) :
                        /\ Entered(j, "start-job-run")
                        /\ history[j].data = history[i].data

C9_Witness ==
    /\ Constructed
    /\ \E i \in DOMAIN history :
          Entered(i, "crawl-object") /\ history[i].data.items # {}

\* C10: 'crawl-object' is the End state, a request-response call of
\* aws-sdk glue:startCrawler with Parameters Name = crawler_name; the execution
\* never waits in it and leaves it while the crawler is still running; the
\* state machine is created as STANDARD under "<id>-state-machine".
C10_CrawlerStartStep ==
    /\ Constructed =>
        /\ StateOf("crawl-object").End
        /\ StateOf("crawl-object").Type = "Task"
        /\ StateOf("crawl-object").Resource =
              "arn:aws:states:::aws-sdk:glue:startCrawler"
        /\ StateOf("crawl-object").Parameters = [Name |-> ctor_args.crawler_name]
        /\ StateMachine.state_machine_type = "STANDARD"
        /\ StateMachine.id = ctor_args.id \o "-state-machine"
        /\ exec.current = "crawl-object" => exec.phase = "entered"
        /\ \A i \in DOMAIN history :
              Exited(i, "crawl-object") =>
                  /\ i > 1 /\ i < Len(history)
                  /\ history[i - 1].type = "TaskStateEntered"
                  /\ history[i + 1].type = "ExecutionSucceeded"

C10_Witness ==
    /\ Constructed
    /\ exec.status = "SUCCEEDED"
    /\ crawler = "RUNNING"
    /\ \E i \in DOMAIN history : Exited(i, "crawl-object")

====
